---- MODULE Spec2Model ----
(***************************************************************************)
(* The autograd engine that the two tutorial notebooks drive: Values       *)
(* (tensors) with data, an accumulated gradient, a requires_grad flag and  *)
(* a grad_fn back-reference; Operation Records built by the forward        *)
(* operators; backward() over the recorded graph; zero_grad(); freezing    *)
(* of parameters.  A session is a sequence of calls on the engine, as the  *)
(* notebook cells make them.                                               *)
(***************************************************************************)
EXTENDS Integers, Sequences, FiniteSets, TLC

\* ------------------------------------------------------------------ bounds
MaxAbs == 1        \* leaf data elements range over -MaxAbs..MaxAbs
MaxSeed == 2       \* seed elements range over 1..MaxSeed
MaxStmts == 2      \* forward statements per session
MaxBackward == 2   \* backward() calls per session
MaxToggle == 1     \* requires_grad assignments per session
MaxZero == 1       \* zero_grad() calls per session
MaxCalls == 3      \* calls per session after the tensors are created
MaxBackbone == 3   \* parameters of the pretrained model ahead of its classifier
MaxTrain == 5      \* calls per training session after the tensors are created
MaxRate == 1       \* learning rates range over 1..MaxRate

VARIABLES
    vals,   \* the arena of Values, in construction order
    recs,   \* the arena of Operation Records, in construction order
    log,    \* the calls made so far, each with its outcome
    model,  \* the named parameters of the module being fine-tuned
    pass    \* the backward pass under way: its accumulators and its progress

vars == <<vals, recs, log, model, pass>>

\* An absent gradient (.grad is None) and an absent producer (.grad_fn is None).
None == <<>>
NoFn == 0

\* --------------------------------------------------------- tensor arithmetic
Elem == (0 - MaxAbs)..MaxAbs
Vec(n) == [1..n -> Elem]
SeedVec(n) == [1..n -> 1..MaxSeed]

RECURSIVE IPow(_, _)
IPow(x, n) == IF n = 0 THEN 1 ELSE x * IPow(x, n - 1)

VAdd(u, v) == [i \in 1..Len(u) |-> u[i] + v[i]]
VSub(u, v) == [i \in 1..Len(u) |-> u[i] - v[i]]
VMul(u, v) == [i \in 1..Len(u) |-> u[i] * v[i]]
VPow(u, n) == [i \in 1..Len(u) |-> IPow(u[i], n)]
VScale(k, u) == [i \in 1..Len(u) |-> k * u[i]]
VNeg(u) == [i \in 1..Len(u) |-> 0 - u[i]]
VRelu(u) == [i \in 1..Len(u) |-> IF u[i] > 0 THEN u[i] ELSE 0]

RECURSIVE SumTo(_, _)
SumTo(u, n) == IF n = 0 THEN 0 ELSE u[n] + SumTo(u, n - 1)
VSum(u) == <<SumTo(u, Len(u))>>
VExpand(g, n) == [i \in 1..n |-> g[1]]

\* The forward value of one operator on its inputs' data xs (k: the exponent of
\* "pow", the constant factor of "scale").
Forward(op, k, xs) ==
    CASE op = "add"   -> VAdd(xs[1], xs[2])
      [] op = "sub"   -> VSub(xs[1], xs[2])
      [] op = "mul"   -> VMul(xs[1], xs[2])
      [] op = "pow"   -> VPow(xs[1], k)
      [] op = "scale" -> VScale(k, xs[1])
      [] op = "sum"   -> VSum(xs[1])
      [] op = "relu"  -> VRelu(xs[1])

\* The local gradient rule of one operator: the contribution to input j of an
\* output gradient g.
LocalGrad(op, k, xs, j, g) ==
    CASE op = "add"   -> g
      [] op = "sub"   -> IF j = 1 THEN g ELSE VNeg(g)
      [] op = "mul"   -> IF j = 1 THEN VMul(g, xs[2]) ELSE VMul(g, xs[1])
      [] op = "pow"   -> VMul(g, VScale(k, VPow(xs[1], k - 1)))
      [] op = "scale" -> VScale(k, g)
      [] op = "sum"   -> VExpand(g, Len(xs[1]))
      [] op = "relu"  -> [i \in 1..Len(g) |-> IF xs[1][i] > 0 THEN g[i] ELSE 0]

\* ------------------------------------------------------------ graph builder
Graph(vs, rs) == [vals |-> vs, recs |-> rs]

\* A tensor created by the caller: no producer, no inputs.
Leaf(d, rg) ==
    [data |-> d, grad |-> None, requires_grad |-> rg, grad_fn |-> NoFn,
     inputs |-> <<>>]

OutRequiresGradAll(needs) == \A i \in 1..Len(needs) : needs[i]

\* "an output tensor requires gradients if at least one of its inputs requires
\* gradients"
OutRequiresGrad(needs) == \E i \in 1..Len(needs) : needs[i]

\* A builder that reuses the record of an identical earlier operation.
NewRecordShared(G, op, k, ins, needs) ==
    IF \E f \in 1..Len(G.recs) : G.recs[f].op = op /\ G.recs[f].inputs = ins
    THEN G.recs
    ELSE Append(G.recs, [op |-> op, k |-> k, inputs |-> ins, needs |-> needs,
                         consumed |-> FALSE])

\* The record an operator allocates for its output.
NewRecord(G, op, k, ins, needs) ==
    Append(G.recs, [op |-> op, k |-> k, inputs |-> ins, needs |-> needs,
                    consumed |-> FALSE])

\* A builder that gives a scalar result no producing record.
ApplyOpScalarLeaf(G, op, k, ins) ==
    LET xs == [i \in 1..Len(ins) |-> G.vals[ins[i]].data]
        needs == [i \in 1..Len(ins) |-> G.vals[ins[i]].requires_grad]
        d == Forward(op, k, xs)
        rec == OutRequiresGrad(needs) /\ Len(d) # 1
        rs == IF rec THEN NewRecord(G, op, k, ins, needs) ELSE G.recs
        v == [data |-> d, grad |-> None, requires_grad |-> OutRequiresGrad(needs),
              grad_fn |-> IF rec THEN Len(rs) ELSE NoFn, inputs |-> ins]
    IN  Graph(Append(G.vals, v), rs)

\* A builder that records every operation, whatever its inputs.
ApplyOpAlways(G, op, k, ins) ==
    LET xs == [i \in 1..Len(ins) |-> G.vals[ins[i]].data]
        needs == [i \in 1..Len(ins) |-> G.vals[ins[i]].requires_grad]
        rs == NewRecord(G, op, k, ins, needs)
        v == [data |-> Forward(op, k, xs), grad |-> None,
              requires_grad |-> OutRequiresGrad(needs),
              grad_fn |-> Len(rs), inputs |-> ins]
    IN  Graph(Append(G.vals, v), rs)

\* One traced operator: computes the result Value, and records the operation
\* when the result requires gradients.  The result is the last Value of the
\* returned graph.
ApplyOp(G, op, k, ins) ==
    LET xs == [i \in 1..Len(ins) |-> G.vals[ins[i]].data]
        needs == [i \in 1..Len(ins) |-> G.vals[ins[i]].requires_grad]
        rg == OutRequiresGrad(needs)
        rs == IF rg THEN NewRecord(G, op, k, ins, needs) ELSE G.recs
        v == [data |-> Forward(op, k, xs), grad |-> None, requires_grad |-> rg,
              grad_fn |-> IF rg THEN Len(rs) ELSE NoFn, inputs |-> ins]
    IN  Graph(Append(G.vals, v), rs)

Top(G) == Len(G.vals)

\* The exponents exchanged: 3*a**2 - b**3.
ExprQSlip(G, a, b) ==
    LET G1 == ApplyOp(G, "pow", 2, <<a>>)
        G2 == ApplyOp(G1, "scale", 3, <<Top(G1)>>)
        G3 == ApplyOp(G2, "pow", 3, <<b>>)
    IN  ApplyOp(G3, "sub", 0, <<Top(G2), Top(G3)>>)

\* Q = 3*a**3 - b**2
ExprQ(G, a, b) ==
    LET G1 == ApplyOp(G, "pow", 3, <<a>>)
        G2 == ApplyOp(G1, "scale", 3, <<Top(G1)>>)
        G3 == ApplyOp(G2, "pow", 2, <<b>>)
    IN  ApplyOp(G3, "sub", 0, <<Top(G2), Top(G3)>>)

\* loss = (prediction - labels).sum()
ExprLoss(G, p, l) ==
    LET G1 == ApplyOp(G, "sub", 0, <<p, l>>)
    IN  ApplyOp(G1, "sum", 0, <<Top(G1)>>)

\* a = x + y
ExprAdd(G, x, y) == ApplyOp(G, "add", 0, <<x, y>>)

\* a*a
ExprMul(G, x, y) == ApplyOp(G, "mul", 0, <<x, y>>)

Kinds == {"add", "mul", "Q", "loss"}

Build(G, kind, x, y) ==
    CASE kind = "add"  -> ExprAdd(G, x, y)
      [] kind = "mul"  -> ExprMul(G, x, y)
      [] kind = "Q"    -> ExprQ(G, x, y)
      [] kind = "loss" -> ExprLoss(G, x, y)

\* ---------------------------------------------------------- backward engine
\* The Operation Records a backward pass from Value v traverses: the producer
\* of v and, through every input that needed a gradient when its record was
\* built, the producers below.
RECURSIVE RecsFrom(_, _)
RecsFrom(G, v) ==
    IF G.vals[v].grad_fn = NoFn THEN {}
    ELSE LET f == G.vals[v].grad_fn
             r == G.recs[f]
         IN  {f} \cup UNION {RecsFrom(G, r.inputs[j]) :
                               j \in {n \in 1..Len(r.inputs) : r.needs[n]}}

\* A contribution that replaces what is already there.
PlusGradOverwrite(old, new) == IF new = None THEN old ELSE new

\* "accumulates them": a contribution is added to what is already there.
PlusGrad(old, new) ==
    IF new = None THEN old ELSE IF old = None THEN new ELSE VAdd(old, new)

\* A pass that reads the inputs' present flags instead of the record's.
RECURSIVE PushByFlag(_, _, _, _, _)
PushByFlag(G, r, g, j, acc) ==
    IF j > Len(r.inputs) THEN acc
    ELSE LET xs == [i \in 1..Len(r.inputs) |-> G.vals[r.inputs[i]].data]
             c == LocalGrad(r.op, r.k, xs, j, g)
             acc2 == IF G.vals[r.inputs[j]].requires_grad
                     THEN [acc EXCEPT ![r.inputs[j]] = PlusGrad(@, c)]
                     ELSE acc
         IN  PushByFlag(G, r, g, j + 1, acc2)

\* The record r of a Value whose incoming gradient g is complete hands each
\* input j, j+1, ... its contribution.
RECURSIVE Push(_, _, _, _, _)
Push(G, r, g, j, acc) ==
    IF j > Len(r.inputs) THEN acc
    ELSE LET xs == [i \in 1..Len(r.inputs) |-> G.vals[r.inputs[i]].data]
             c == LocalGrad(r.op, r.k, xs, j, g)
             acc2 == IF r.needs[j]
                     THEN [acc EXCEPT ![r.inputs[j]] = PlusGrad(@, c)]
                     ELSE acc
         IN  Push(G, r, g, j + 1, acc2)

\* Values are visited from the root towards the leaves, in reverse construction
\* order, which is a reverse topological order of the graph: a record's inputs
\* are created before its output.
RECURSIVE Sweep(_, _, _)
Sweep(G, i, acc) ==
    IF i = 0 THEN acc
    ELSE LET v == G.vals[i]
         IN  IF acc[i] = None \/ v.grad_fn = NoFn
             THEN Sweep(G, i - 1, acc)
             ELSE Sweep(G, i - 1, Push(G, G.recs[v.grad_fn], acc[i], 1, acc))

\* The incoming gradient every Value has accumulated when the pass from root
\* with seed is over (None where nothing arrived).
Incoming(G, root, seed) ==
    Sweep(G, root, [i \in 1..Len(G.vals) |-> IF i = root THEN seed ELSE None])

IsLeaf(v) == v.grad_fn = NoFn

StoreGradsOverwrite(G, acc) ==
    [i \in 1..Len(G.vals) |->
        IF IsLeaf(G.vals[i]) /\ G.vals[i].requires_grad /\ acc[i] # None
        THEN [G.vals[i] EXCEPT !.grad = acc[i]]
        ELSE G.vals[i]]

StoreGradsAnyLeaf(G, acc) ==
    [i \in 1..Len(G.vals) |->
        IF IsLeaf(G.vals[i])
        THEN [G.vals[i] EXCEPT !.grad = PlusGrad(@, acc[i])]
        ELSE G.vals[i]]

\* "all Tensors in the graph that have requires_grad=True will have their .grad
\* Tensor accumulated with the gradient"
StoreGrads(G, acc) ==
    [i \in 1..Len(G.vals) |->
        IF IsLeaf(G.vals[i]) /\ G.vals[i].requires_grad
        THEN [G.vals[i] EXCEPT !.grad = PlusGrad(@, acc[i])]
        ELSE G.vals[i]]

ConsumeNothing(G, root, retain) == G.recs

\* Without retention the traversed records are consumed by the pass.
Consume(G, root, retain) ==
    [f \in 1..Len(G.recs) |->
        IF f \in RecsFrom(G, root) /\ ~retain
        THEN [G.recs[f] EXCEPT !.consumed = TRUE]
        ELSE G.recs[f]]

SeedOfZero(G, root, seed) == IF seed = None THEN <<0>> ELSE seed

\* The seed a call uses: 1.0 for a scalar root when none is passed.
SeedOf(G, root, seed) == IF seed = None THEN <<1>> ELSE seed

\* An engine that lets a pass start from any root.
BackwardOutcomeAnyRoot(G, root, seed) ==
    IF seed = None /\ Len(G.vals[root].data) # 1 THEN "ShapeError"
    ELSE IF seed # None /\ Len(seed) # Len(G.vals[root].data) THEN "ShapeError"
    ELSE IF \E f \in RecsFrom(G, root) : G.recs[f].consumed THEN "ReuseError"
    ELSE "ok"

\* The outcome of backward(root, seed): "ok" or the error it fails with, decided
\* before anything is written.
BackwardOutcome(G, root, seed) ==
    IF seed = None /\ Len(G.vals[root].data) # 1 THEN "ShapeError"
    ELSE IF seed # None /\ Len(seed) # Len(G.vals[root].data) THEN "ShapeError"
    ELSE IF IsLeaf(G.vals[root]) /\ ~G.vals[root].requires_grad
         THEN "NoGradientPathError"
    ELSE IF \E f \in RecsFrom(G, root) : G.recs[f].consumed THEN "ReuseError"
    ELSE "ok"

Backward(G, root, seed, retain) ==
    Graph(StoreGrads(G, Incoming(G, root, SeedOf(G, root, seed))),
          Consume(G, root, retain))

\* zero_grad(): every gradient buffer is cleared.
ZeroGrad(G) ==
    Graph([i \in 1..Len(G.vals) |-> [G.vals[i] EXCEPT !.grad = None]], G.recs)

\* param.requires_grad = b
SetRequiresGrad(G, x, b) ==
    Graph([G.vals EXCEPT ![x].requires_grad = b], G.recs)

\* ------------------------------------------------------------------- calls
Call(c, kind, x, y, seed, flag, res, out) ==
    [call |-> c, kind |-> kind, x |-> x, y |-> y, seed |-> seed, flag |-> flag,
     res |-> res, out |-> out]

Count(c) == Cardinality({n \in 1..Len(log) : log[n].call = c})

\* The Values the session holds a name for: the tensors it created and the
\* results of its statements (the temporaries of an expression have none).
Named == {log[n].out : n \in 1..Len(log)} \ {0}

Now == Graph(vals, recs)

\* A forward statement on two named Values.
Stmt(kind, x, y) ==
    /\ Count("stmt") < MaxStmts
    /\ x \in Named /\ y \in Named
    /\ IF Len(vals[x].data) # Len(vals[y].data)
       THEN /\ log' = Append(log, Call("stmt", kind, x, y, None, FALSE, "ShapeError", 0))
            /\ UNCHANGED <<vals, recs, model, pass>>
       ELSE LET G == Build(Now, kind, x, y)
            IN  /\ vals' = G.vals
                /\ recs' = G.recs
                /\ log' = Append(log, Call("stmt", kind, x, y, None, FALSE, "ok", Top(G)))
                /\ UNCHANGED <<model, pass>>

\* root.backward(gradient=seed, retain_graph=retain); seed None: no argument.
BackwardCall(root, seed, retain) ==
    /\ Count("backward") < MaxBackward
    /\ root \in Named
    /\ LET res == BackwardOutcome(Now, root, seed)
           G == Backward(Now, root, seed, retain)
       IN  /\ log' = Append(log, Call("backward", "", root, 0, seed, retain, res, 0))
           /\ IF res = "ok"
              THEN vals' = G.vals /\ recs' = G.recs
              ELSE UNCHANGED <<vals, recs>>
    /\ UNCHANGED <<model, pass>>

ZeroGradCall ==
    /\ Count("zero_grad") < MaxZero
    /\ vals' = ZeroGrad(Now).vals
    /\ log' = Append(log, Call("zero_grad", "", 0, 0, None, FALSE, "ok", 0))
    /\ UNCHANGED <<recs, model, pass>>

\* Assignment to the requires_grad flag of a named leaf.
SetRequiresGradCall(x, b) ==
    /\ Count("requires_grad") < MaxToggle
    /\ x \in Named /\ IsLeaf(vals[x])
    /\ vals' = SetRequiresGrad(Now, x, b).vals
    /\ log' = Append(log, Call("requires_grad", "", x, 0, None, b, "ok", 0))
    /\ UNCHANGED <<recs, model, pass>>

\* ------------------------------------------------------------ the sessions
Seeds == {None} \cup SeedVec(1) \cup SeedVec(2)

\* Two tensors created with caller-specified data and requires_grad.
InitLeaves(D, F) ==
    \E da \in D, db \in D, fa \in F, fb \in F :
        /\ vals = <<Leaf(da, fa), Leaf(db, fb)>>
        /\ recs = <<>>
        /\ log = <<Call("tensor", "", 0, 0, None, fa, "ok", 1),
                   Call("tensor", "", 0, 0, None, fb, "ok", 2)>>
        /\ model = <<>>
        /\ pass = None

\* The calls of a session, each drawing its arguments from the Values that
\* exist.
Room == Len(log) - Count("tensor") < MaxCalls

DoStmt(K) ==
    /\ Room
    /\ \E kind \in K, x \in 1..Len(vals), y \in 1..Len(vals) : Stmt(kind, x, y)

DoBackward(S) ==
    /\ Room
    /\ \E root \in 1..Len(vals), seed \in S, retain \in BOOLEAN :
            BackwardCall(root, seed, retain)

DoZeroGrad == Room /\ ZeroGradCall

\* param.requires_grad = False
DoSetRequiresGrad ==
    /\ Room
    /\ \E x \in 1..Len(vals) : SetRequiresGradCall(x, FALSE)

\* The session of the requires_grad cells: x, y, z created with either flag,
\* sums and losses built from them, backward() with or without a gradient
\* argument, flags assigned.
Init == InitLeaves({<<1, 0 - 1>>, <<0, 1>>}, BOOLEAN)

BuildStep == DoStmt({"add", "loss"})
BackwardStep == DoBackward(Seeds)
ZeroGradStep == DoZeroGrad
FreezeStep == DoSetRequiresGrad

Next == BuildStep \/ BackwardStep \/ ZeroGradStep \/ FreezeStep

Spec == Init /\ [][Next]_vars

\* The session of the differentiation cells: a and b created with
\* requires_grad=True, expressions built from them, backward() from a result
\* with an explicit gradient argument of the tensors' shape.  The operators of
\* this session act element by element, so the tensors are drawn with two
\* different elements each.
InitGrad == InitLeaves({v \in Vec(2) : v[1] # v[2]}, {TRUE})

BuildGrad == DoStmt({"Q", "mul", "add"})
BackwardGrad ==
    /\ Room
    /\ \E root \in 1..Len(vals), seed \in SeedVec(2), retain \in BOOLEAN :
            ~IsLeaf(vals[root]) /\ BackwardCall(root, seed, retain)

NextGrad == BuildGrad \/ BackwardGrad \/ ZeroGradStep

SpecGrad == InitGrad /\ [][NextGrad]_vars

\* ------------------------------------------------------------ fine-tuning
\* The names of the first parameters of resnet18 and of its classifier fc.
BackboneNames ==
    <<"conv1.weight", "bn1.weight", "bn1.bias", "layer1.0.conv1.weight",
      "layer1.0.bn1.weight", "layer1.0.bn1.bias">>
FcNames == <<"fc.weight", "fc.bias">>
Backbone == SubSeq(BackboneNames, 1, MaxBackbone)

\* A layer whose parameters take over the flags of the parameters they replace.
LinearInherit(G, old, dw, db) ==
    Graph(G.vals \o <<Leaf(dw, G.vals[old[1]].requires_grad),
                      Leaf(db, G.vals[old[2]].requires_grad)>>, G.recs)

\* nn.Linear(512, 10): a weight and a bias, created with requires_grad=True
\* ("unfrozen by default"); old are the parameters of the layer it replaces.
Linear(G, old, dw, db) ==
    Graph(G.vals \o <<Leaf(dw, TRUE), Leaf(db, TRUE)>>, G.recs)

\* model.parameters()
Parameters == {model[n].param : n \in 1..Len(model)}
ParamOf(m, name) == (CHOOSE n \in 1..Len(m) : m[n].name = name)

\* for param in model.parameters(): param.requires_grad = False
FreezeAll ==
    /\ Room
    /\ vals' = [i \in 1..Len(vals) |->
                  IF i \in Parameters THEN [vals[i] EXCEPT !.requires_grad = FALSE]
                  ELSE vals[i]]
    /\ log' = Append(log, Call("freeze_all", "", 0, 0, None, FALSE, "ok", 0))
    /\ UNCHANGED <<recs, model, pass>>

\* model.fc = nn.Linear(512, 10)
ReplaceFc ==
    /\ Room
    /\ \E dw \in Vec(1), db \in Vec(1) :
          LET old == <<model[ParamOf(model, "fc.weight")].param,
                       model[ParamOf(model, "fc.bias")].param>>
              G == Linear(Now, old, dw, db)
              w == Len(vals) + 1
          IN  /\ vals' = G.vals
              /\ model' = [n \in 1..Len(model) |->
                             IF model[n].name = "fc.weight"
                             THEN [model[n] EXCEPT !.param = w]
                             ELSE IF model[n].name = "fc.bias"
                             THEN [model[n] EXCEPT !.param = w + 1]
                             ELSE model[n]]
              /\ log' = Append(log, Call("replace_fc", "", w, w + 1, None, FALSE, "ok", 0))
    /\ UNCHANGED <<recs, pass>>

\* model = resnet18(weights=ResNet18_Weights.DEFAULT): every parameter is a
\* tensor with requires_grad=True.
InitFinetune ==
    LET names == Backbone \o FcNames
    IN  /\ vals = [n \in 1..Len(names) |-> Leaf(<<1>>, TRUE)]
        /\ recs = <<>>
        /\ model = [n \in 1..Len(names) |-> [name |-> names[n], param |-> n]]
        /\ log = [n \in 1..Len(names) |-> Call("tensor", "", 0, 0, None, TRUE, "ok", n)]
        /\ pass = None

NextFinetune == FreezeAll \/ ReplaceFc

SpecFinetune == InitFinetune /\ [][NextFinetune]_vars

\* ------------------------------------------------- the pass, step by step
\* A pass that goes to the lowest Value holding a gradient first.
FollowingLowest(G, acc, i) ==
    LET W == {j \in 1..(i - 1) : acc[j] # None /\ ~IsLeaf(G.vals[j])}
    IN  IF W = {} THEN 0 ELSE CHOOSE j \in W : \A m \in W : j <= m

\* The Value processed after Value i (i = Len + 1: the first one): the latest
\* built below i that holds a gradient and has a producing record; 0 when there
\* is none left.
Following(G, acc, i) ==
    LET W == {j \in 1..(i - 1) : acc[j] # None /\ ~IsLeaf(G.vals[j])}
    IN  IF W = {} THEN 0 ELSE CHOOSE j \in W : \A m \in W : m <= j

\* Processing Value i: its record hands its gradient to its inputs.
Visit(G, i, acc) == Push(G, G.recs[G.vals[i].grad_fn], acc[i], 1, acc)

\* backward(root, seed) begins: the outcome is decided, the root's incoming
\* gradient is the seed.
PassStart ==
    /\ Room /\ pass = None
    /\ \E root \in Named, seed \in Seeds, retain \in BOOLEAN :
          LET res == BackwardOutcome(Now, root, seed)
              acc == [i \in 1..Len(vals) |->
                        IF i = root THEN SeedOf(Now, root, seed) ELSE None]
          IN  /\ log' = Append(log, Call("backward", "", root, 0, seed, retain, res, 0))
              /\ pass' = IF res = "ok"
                         THEN [root |-> root, seed |-> seed, retain |-> retain,
                               acc |-> acc, order |-> <<>>,
                               next |-> Following(Now, acc, Len(vals) + 1)]
                         ELSE None
    /\ UNCHANGED <<vals, recs, model>>

\* One Value is processed.
PassVisit ==
    /\ pass # None /\ pass.next # 0
    /\ LET acc == Visit(Now, pass.next, pass.acc)
       IN  pass' = [pass EXCEPT !.acc = acc,
                                !.order = Append(@, pass.next),
                                !.next = Following(Now, acc, pass.next)]
    /\ UNCHANGED <<vals, recs, log, model>>

\* Nothing is left to process: the leaves store their gradients and the
\* traversed records are consumed.
PassFinish ==
    /\ pass # None /\ pass.next = 0
    /\ vals' = StoreGrads(Now, pass.acc)
    /\ recs' = Consume(Now, pass.root, pass.retain)
    /\ pass' = None
    /\ UNCHANGED <<log, model>>

PassBuild == pass = None /\ DoStmt({"mul", "add", "Q", "loss"})

InitPass == InitLeaves({<<1, 0 - 1>>}, BOOLEAN)

NextPass == PassBuild \/ PassStart \/ PassVisit \/ PassFinish

SpecPass == InitPass /\ [][NextPass]_vars

\* ---------------------------------------------------------------- training
\* The parameters of Net, in the order of net.parameters().
NetNames ==
    <<"conv1.weight", "conv1.bias", "conv2.weight", "conv2.bias",
      "fc1.weight", "fc1.bias", "fc2.weight", "fc2.bias",
      "fc3.weight", "fc3.bias">>

\* A layer that leaves its bias out.
AffineNoBias(G, w, b, x) == ApplyOp(G, "mul", 0, <<w, x>>)

\* A layer with parameters: y = Wx + b.
Affine(G, w, b, x) ==
    LET G1 == ApplyOp(G, "mul", 0, <<w, x>>)
    IN  ApplyOp(G1, "add", 0, <<Top(G1), b>>)

\* Net.forward from layer n on: each layer but the last is followed by relu
\* (pooling and flatten have no parameters and keep a one-element tensor).
RECURSIVE NetFrom(_, _, _, _)
NetFrom(G, ps, n, x) ==
    LET G1 == Affine(G, ps[2 * n - 1], ps[2 * n], x)
    IN  IF 2 * n = Len(ps) THEN G1
        ELSE NetFrom(ApplyOp(G1, "relu", 0, <<Top(G1)>>), ps, n + 1,
                     Top(G1) + 1)

\* nn.MSELoss(): the mean of the squared differences (one element: their sum).
MSELoss(G, out, target) ==
    LET G1 == ApplyOp(G, "sub", 0, <<out, target>>)
        G2 == ApplyOp(G1, "pow", 2, <<Top(G1)>>)
    IN  ApplyOp(G2, "sum", 0, <<Top(G2)>>)

\* for f in net.parameters(): f.data.sub_(f.grad.data * learning_rate), from
\* the n-th parameter on; reading the data of an absent gradient raises, the
\* parameters before it having been updated.
RECURSIVE SgdLoop(_, _, _, _)
SgdLoop(vs, ps, n, lr) ==
    IF n > Len(ps) THEN [vals |-> vs, res |-> "ok"]
    ELSE IF vs[ps[n]].grad = None THEN [vals |-> vs, res |-> "AttributeError"]
    ELSE SgdLoop([vs EXCEPT ![ps[n]].data = VSub(@, VScale(lr, vs[ps[n]].grad))],
                 ps, n + 1, lr)

ParamSeq == [n \in 1..Len(model) |-> model[n].param]
InputOf == Len(model) + 1
TargetOf == Len(model) + 2
ResultsOf(c) == {log[n].out : n \in {m \in 1..Len(log) : log[m].call = c}} \ {0}
RoomTrain == Len(log) - Count("tensor") < MaxTrain

\* out = net(input)
TrainForward ==
    /\ RoomTrain
    /\ LET G == NetFrom(Now, ParamSeq, 1, InputOf)
       IN  /\ vals' = G.vals /\ recs' = G.recs
           /\ log' = Append(log, Call("forward", "", InputOf, 0, None, FALSE, "ok", Top(G)))
    /\ UNCHANGED <<model, pass>>

\* loss = criterion(output, target)
TrainCriterion ==
    /\ RoomTrain
    /\ \E out \in ResultsOf("forward") :
          LET G == MSELoss(Now, out, TargetOf)
          IN  /\ vals' = G.vals /\ recs' = G.recs
              /\ log' = Append(log, Call("criterion", "", out, TargetOf, None, FALSE,
                                         "ok", Top(G)))
    /\ UNCHANGED <<model, pass>>

\* net.zero_grad()
TrainZeroGrad ==
    /\ RoomTrain
    /\ vals' = [i \in 1..Len(vals) |->
                  IF i \in Parameters THEN [vals[i] EXCEPT !.grad = None] ELSE vals[i]]
    /\ log' = Append(log, Call("zero_grad", "", 0, 0, None, FALSE, "ok", 0))
    /\ UNCHANGED <<recs, model, pass>>

\* loss.backward(); out.backward(torch.randn(1, 10))
TrainBackward ==
    /\ RoomTrain
    /\ \E root \in ResultsOf("forward") \cup ResultsOf("criterion"),
          seed \in {None} \cup SeedVec(1) :
          /\ seed = None <=> root \in ResultsOf("criterion")
          /\ LET res == BackwardOutcome(Now, root, seed)
                 G == Backward(Now, root, seed, FALSE)
             IN  /\ log' = Append(log, Call("backward", "", root, 0, seed, FALSE, res, 0))
                 /\ IF res = "ok"
                    THEN vals' = G.vals /\ recs' = G.recs
                    ELSE UNCHANGED <<vals, recs>>
    /\ UNCHANGED <<model, pass>>

\* learning_rate = ...; the manual update loop
TrainUpdate ==
    /\ RoomTrain
    /\ \E lr \in 1..MaxRate :
          LET r == SgdLoop(vals, ParamSeq, 1, lr)
          IN  /\ vals' = r.vals
              /\ log' = Append(log, Call("update", "", lr, 0, None, FALSE, r.res, 0))
    /\ UNCHANGED <<recs, model, pass>>

\* net = Net(); input = torch.randn(..); target = torch.randn(..): the
\* parameters start alike, every one requiring gradients.
InitTrain ==
    \E w \in Vec(1), input \in Vec(1), target \in Vec(1) :
        LET np == Len(NetNames)
        IN  /\ vals = [n \in 1..(np + 2) |->
                         IF n > np THEN Leaf(IF n = np + 1 THEN input ELSE target, FALSE)
                         ELSE Leaf(w, TRUE)]
            /\ recs = <<>>
            /\ model = [n \in 1..np |-> [name |-> NetNames[n], param |-> n]]
            /\ log = [n \in 1..(np + 2) |->
                         Call("tensor", "", 0, 0, None, n <= np, "ok", n)]
            /\ pass = None

NextTrain ==
    TrainForward \/ TrainCriterion \/ TrainZeroGrad \/ TrainBackward \/ TrainUpdate

SpecTrain == InitTrain /\ [][NextTrain]_vars

\* ------------------------------------------------------------------ claims
Last == log[Len(log)]
Derived(v) == v.inputs # <<>>
AnyInputRequiresGrad(vs, i) ==
    \E j \in 1..Len(vs[i].inputs) : vs[vs[i].inputs[j]].requires_grad

\* C2 as stated: in every reachable state each derived Value has requires_grad
\* exactly when at least one of its input Values has requires_grad.
C2_InEveryState ==
    \A i \in 1..Len(vals) :
        Derived(vals[i]) => (vals[i].requires_grad <=> AnyInputRequiresGrad(vals, i))

\* C2, amended: every Value an operator produces has requires_grad exactly when
\* at least one of its inputs has requires_grad at the time the operator is
\* applied (mixed inputs give True, all-False inputs give False), and building
\* leaves the flags of the Values that exist as they are.
C2_RequiresGradAtConstruction ==
    [][/\ \A i \in (Len(vals) + 1)..Len(vals') :
             /\ Derived(vals'[i])
             /\ vals'[i].requires_grad <=> AnyInputRequiresGrad(vals', i)
       /\ Len(vals') > Len(vals) =>
             \A i \in 1..Len(vals) : vals'[i].requires_grad = vals[i].requires_grad]_vars

\* C2 witness: an operator with one requires_grad=False and one
\* requires_grad=True input gave True, and one with all inputs False gave False.
C2_Witness ==
    \E i \in 1..Len(vals), j \in 1..Len(vals) :
        /\ Len(vals[i].inputs) = 2 /\ vals[i].requires_grad
        /\ ~vals[vals[i].inputs[1]].requires_grad
        /\ vals[vals[i].inputs[2]].requires_grad
        /\ Last.call = "stmt"
        /\ Derived(vals[j]) /\ ~vals[j].requires_grad
        /\ ~AnyInputRequiresGrad(vals, j)

\* The backward call of a step, when the step is one.
IsCall(c) == log' = Append(log, Last') /\ Last'.call = c
WellShaped(root, seed) ==
    IF seed = None THEN Len(vals[root].data) = 1
    ELSE Len(seed) = Len(vals[root].data)

\* The earlier successful backward calls without retention whose graph shares
\* an Operation Record with the graph of root.
PriorPasses(root) ==
    {n \in 1..Len(log) :
        /\ log[n].call = "backward" /\ log[n].res = "ok" /\ ~log[n].flag
        /\ RecsFrom(Now, log[n].x) \cap RecsFrom(Now, root) # {}}

\* C4: a backward call on a root with a producing record, with a seed of the
\* root's shape, succeeds when no earlier pass without retention went through
\* its graph, and fails with ReuseError when one did, whatever the graph and the
\* seed; in particular a second call on the same root after a first one without
\* retention fails with ReuseError, and nothing is written by the failed call.
C4_SecondBackwardReuseError ==
    [][IsCall("backward") /\ ~IsLeaf(vals[Last'.x]) /\ WellShaped(Last'.x, Last'.seed)
        => /\ PriorPasses(Last'.x) = {} => Last'.res = "ok"
           /\ PriorPasses(Last'.x) # {} =>
                 Last'.res = "ReuseError" /\ vals' = vals /\ recs' = recs
           /\ (\E n \in 1..Len(log) :
                 /\ log[n].call = "backward" /\ log[n].res = "ok"
                 /\ ~log[n].flag /\ log[n].x = Last'.x)
              => Last'.res = "ReuseError"]_vars

\* C4 witness: a first backward without retention succeeded and the second one
\* on the same root failed with ReuseError.
C4_Witness ==
    /\ Len(log) >= 2
    /\ Last.call = "backward" /\ Last.res = "ReuseError"
    /\ \E n \in 1..(Len(log) - 1) :
          /\ log[n].call = "backward" /\ log[n].res = "ok" /\ ~log[n].flag
          /\ log[n].x = Last.x /\ ~IsLeaf(vals[Last.x])
          /\ \E i \in 1..Len(vals) : vals[i].grad # None

\* C8: backward with no seed on a scalar root does exactly what backward with
\* the seed 1 does; with no seed on a non-scalar root, or with a seed whose
\* shape is not the root's, it fails with ShapeError and writes nothing; so a
\* pass from a non-scalar root that succeeded was given a seed of its shape.
C8_DefaultSeedAndShapeError ==
    [][IsCall("backward") =>
        LET c == Last'
            n == Len(vals[c.x].data)
        IN  /\ c.seed = None /\ n = 1 /\ c.res = "ok" =>
                 /\ vals' = Backward(Now, c.x, <<1>>, c.flag).vals
                 /\ recs' = Backward(Now, c.x, <<1>>, c.flag).recs
            /\ c.seed = None /\ n # 1 => c.res = "ShapeError"
            /\ c.seed # None /\ Len(c.seed) # n => c.res = "ShapeError"
            /\ c.res = "ShapeError" => vals' = vals /\ recs' = recs
            /\ c.res = "ok" /\ n # 1 => c.seed # None /\ Len(c.seed) = n]_vars

\* C8 witness: backward with no seed failed with ShapeError on a non-scalar
\* root and then succeeded on a scalar loss, whose leaf received the gradient
\* of the seed 1.
C8_Witness ==
    /\ Last.call = "backward" /\ Last.seed = None /\ Last.res = "ok"
    /\ Len(vals[Last.x].data) = 1 /\ ~IsLeaf(vals[Last.x])
    /\ \E i \in 1..Len(vals) : vals[i].grad = <<1, 1>>
    /\ \E n \in 1..Len(log) :
          /\ log[n].call = "backward" /\ log[n].seed = None
          /\ log[n].res = "ShapeError" /\ Len(vals[log[n].x].data) = 2

\* The tensors an expression uses: the leaves below Value v, through every
\* input.
RECURSIVE LeavesUsed(_, _)
LeavesUsed(vs, v) ==
    IF ~Derived(vs[v]) THEN {v}
    ELSE UNION {LeavesUsed(vs, vs[v].inputs[j]) : j \in 1..Len(vs[v].inputs)}

\* C6: after a successful backward pass through an expression, every tensor the
\* expression uses whose requires_grad is False (frozen before the expression
\* was built, or since) has the gradient it had before the pass, and every
\* tensor it uses whose requires_grad is True has a gradient.
C6_FrozenGetsNoGradient ==
    [][IsCall("backward") /\ Last'.res = "ok" =>
        \A l \in LeavesUsed(vals, Last'.x) :
            /\ ~vals[l].requires_grad => vals'[l].grad = vals[l].grad
            /\ vals[l].requires_grad => vals'[l].grad # None]_vars

\* C6 witness: a parameter was frozen, an expression using it and an unfrozen
\* sibling was built, and the pass through it left the frozen one without a
\* gradient and gave the sibling one.
C6_Witness ==
    /\ Len(log) = 5
    /\ log[3].call = "requires_grad" /\ ~log[3].flag
    /\ log[4].call = "stmt" /\ log[4].res = "ok"
    /\ log[3].x \in {log[4].x, log[4].y}
    /\ Last.call = "backward" /\ Last.res = "ok" /\ Last.x = log[4].out
    /\ vals[log[3].x].grad = None
    /\ \E l \in {log[4].x, log[4].y} : vals[l].requires_grad /\ vals[l].grad # None

\* The earlier builds of the statement that a step builds again, from the same
\* created tensors.
SameBuilds(c) ==
    {n \in 1..Len(log) :
        /\ log[n].call = "stmt" /\ log[n].res = "ok"
        /\ log[n].kind = c.kind /\ log[n].x = c.x /\ log[n].y = c.y}

\* C9: a forward statement leaves every Value and every Operation Record that
\* exists as it is; and when it builds an expression a second time from the
\* same created tensors, the new root has the data of the first root while no
\* Operation Record belongs to both graphs.
C9_RebuildSharesNothing ==
    [][IsCall("stmt") /\ Last'.res = "ok" =>
        LET c == Last'
            G == Graph(vals', recs')
        IN  /\ SubSeq(vals', 1, Len(vals)) = vals
            /\ SubSeq(recs', 1, Len(recs)) = recs
            /\ c.out = Len(vals') /\ c.out > Len(vals)
            /\ ~Derived(vals[c.x]) /\ ~Derived(vals[c.y]) =>
                 \A n \in SameBuilds(c) :
                    /\ vals'[c.out].data = vals[log[n].out].data
                    /\ RecsFrom(G, c.out) \cap RecsFrom(G, log[n].out) = {}
                    /\ vals'[c.out].requires_grad =>
                          vals'[c.out].grad_fn # vals[log[n].out].grad_fn]_vars

\* C9 witness: the same loss expression was built twice from the same two
\* tensors, giving two roots with equal data and two records each.
C9_Witness ==
    /\ Len(log) = 4
    /\ log[3].call = "stmt" /\ log[3].kind = "loss" /\ log[3].res = "ok"
    /\ log[4] = [log[3] EXCEPT !.out = Len(vals)]
    /\ log[3].x # log[3].y
    /\ vals[log[3].out].data = vals[log[4].out].data
    /\ Cardinality(RecsFrom(Now, log[3].out)) = 2
    /\ Cardinality(RecsFrom(Now, log[4].out)) = 2
    /\ Len(recs) = 4

\* The seeds of the shape of Value v.
SeedsFor(v) == {s \in Seeds : s # None /\ Len(s) = Len(v.data)}

\* C10: assigning requires_grad = False to a Value changes nothing but that
\* flag: every Operation Record is as it was, and a backward through a graph
\* built before delivers to every Value, that one included, the incoming
\* gradient it delivered before the assignment; and every Operation Record
\* built afterwards marks the inputs whose flag is False as needing no
\* gradient.
C10_FreezeIsNotRetroactive ==
    [][/\ IsCall("requires_grad") =>
            LET G == Graph(vals', recs')
            IN  /\ recs' = recs
                /\ vals' = [vals EXCEPT ![Last'.x].requires_grad = FALSE]
                /\ \A r \in 1..Len(vals) : \A s \in SeedsFor(vals[r]) :
                      /\ Incoming(G, r, s) = Incoming(Now, r, s)
                      /\ RecsFrom(G, r) = RecsFrom(Now, r)
       /\ \A f \in (Len(recs) + 1)..Len(recs') :
            \A j \in 1..Len(recs'[f].inputs) :
                recs'[f].needs[j] = vals'[recs'[f].inputs[j]].requires_grad]_vars

\* C10 witness: a tensor was frozen after a record using it was built, the old
\* record still hands it a gradient, and a record built afterwards does not.
C10_Witness ==
    /\ Len(log) = 5
    /\ log[3].call = "stmt" /\ log[3].res = "ok"
    /\ log[4].call = "requires_grad" /\ log[4].x = log[3].x
    /\ log[5].call = "stmt" /\ log[5].res = "ok" /\ log[5].x = log[4].x
    /\ log[5].kind = "add" /\ log[3].kind = "add" /\ log[3].y = log[5].y
    /\ ~IsLeaf(vals[log[3].out]) /\ ~IsLeaf(vals[log[5].out])
    /\ recs[vals[log[3].out].grad_fn].needs = <<TRUE, TRUE>>
    /\ recs[vals[log[5].out].grad_fn].needs = <<FALSE, TRUE>>
    /\ Incoming(Now, log[3].out, <<1, 1>>)[log[4].x] = <<1, 1>>
    /\ Incoming(Now, log[5].out, <<1, 1>>)[log[4].x] = None

\* The statement of the log that produced Value v, if one did.
StmtsOf(v) == {n \in 1..Len(log) : log[n].call = "stmt" /\ log[n].out = v}

\* C1: for tensors a and b created with requires_grad=True and holding no
\* gradient yet, and Q = 3*a**3 - b**2 built from them, Q holds 3a^3 - b^2 and
\* a successful Q.backward(gradient=[1, 1]) leaves a.grad = 9a^2 and
\* b.grad = -2b, element by element.
C1_GradientOfQ ==
    [][IsCall("backward") /\ Last'.res = "ok" /\ Last'.seed = <<1, 1>> =>
        \A n \in StmtsOf(Last'.x) :
            LET a == log[n].x
                b == log[n].y
                A == vals[a].data
                B == vals[b].data
            IN  /\ log[n].kind = "Q" /\ a # b
                /\ ~Derived(vals[a]) /\ ~Derived(vals[b])
                /\ vals[a].requires_grad /\ vals[b].requires_grad
                /\ vals[a].grad = None /\ vals[b].grad = None
                => /\ vals[Last'.x].data =
                        [i \in 1..2 |-> 3 * A[i] * A[i] * A[i] - B[i] * B[i]]
                   /\ vals'[a].grad = [i \in 1..2 |-> 9 * A[i] * A[i]]
                   /\ vals'[b].grad = [i \in 1..2 |-> 0 - 2 * B[i]]]_vars

\* C1 witness: Q was built from a = [1, -1] and b = [-1, 1] and one backward
\* with seed [1, 1] stored [9, 9] and [2, -2].
C1_Witness ==
    /\ Len(log) = 4
    /\ log[3].call = "stmt" /\ log[3].kind = "Q" /\ log[3].x = 1 /\ log[3].y = 2
    /\ Last.call = "backward" /\ Last.res = "ok" /\ Last.seed = <<1, 1>>
    /\ Last.x = log[3].out
    /\ vals[1].data = <<1, 0 - 1>> /\ vals[2].data = <<0 - 1, 1>>
    /\ vals[1].grad = <<9, 9>> /\ vals[2].grad = <<2, 0 - 2>>

\* The sum of two gradients, either of which may be absent.
RefSum(x, y) ==
    IF x = None THEN y
    ELSE IF y = None THEN x
    ELSE [i \in 1..Len(x) |-> x[i] + y[i]]

\* The gradient that reaches leaf l from Value v holding gradient g, as the sum
\* over every path from v to l of the product of the local rules along it.
RECURSIVE PathSum(_, _, _, _)
PathSum(G, v, l, g) ==
    IF v = l THEN g
    ELSE IF IsLeaf(G.vals[v]) THEN None
    ELSE LET r == G.recs[G.vals[v].grad_fn]
             xs == [i \in 1..Len(r.inputs) |-> G.vals[r.inputs[i]].data]
             P(j) == IF j <= Len(r.inputs) /\ r.needs[j]
                     THEN PathSum(G, r.inputs[j], l, LocalGrad(r.op, r.k, xs, j, g))
                     ELSE None
         IN  RefSum(P(1), P(2))

\* Value c is a + a*a for a created tensor a.
IsAPlusASquared(c, a) ==
    /\ ~IsLeaf(vals[c]) /\ ~Derived(vals[a])
    /\ recs[vals[c].grad_fn].op = "add"
    /\ recs[vals[c].grad_fn].inputs[1] = a
    /\ LET t == recs[vals[c].grad_fn].inputs[2]
       IN  /\ ~IsLeaf(vals[t])
           /\ recs[vals[t].grad_fn].op = "mul"
           /\ recs[vals[t].grad_fn].inputs = <<a, a>>

\* C3: a successful backward adds to the stored gradient of every leaf the sum
\* of the contributions of all the paths from the root to it; for c = a + a*a
\* and a holding no gradient, a.grad becomes seed * (1 + 2a).
C3_SummationLaw ==
    [][IsCall("backward") /\ Last'.res = "ok" =>
        /\ \A l \in 1..Len(vals) :
              IsLeaf(vals[l]) /\ vals[l].requires_grad =>
                 vals'[l].grad =
                    RefSum(vals[l].grad, PathSum(Now, Last'.x, l, Last'.seed))
        /\ \A a \in 1..Len(vals) :
              IsAPlusASquared(Last'.x, a) /\ vals[a].grad = None =>
                 vals'[a].grad =
                    [i \in 1..2 |-> Last'.seed[i] * (1 + 2 * vals[a].data[i])]]_vars

\* C3 witness: c = a + a*a was built from a = [1, -1] and the backward with
\* seed [1, 1] stored 1 + 2a = [3, -1].
C3_Witness ==
    /\ Last.call = "backward" /\ Last.res = "ok" /\ Last.seed = <<1, 1>>
    /\ IsAPlusASquared(Last.x, 1)
    /\ vals[1].data = <<1, 0 - 1>> /\ vals[1].grad = <<3, 0 - 1>>

\* The successful backward calls since the last zero_grad of the log lg.
LastZero(lg) ==
    LET Z == {n \in 1..Len(lg) : lg[n].call = "zero_grad"}
    IN  IF Z = {} THEN 0 ELSE CHOOSE n \in Z : \A m \in Z : m <= n
PassesSinceZero(lg) ==
    {n \in (LastZero(lg) + 1)..Len(lg) : lg[n].call = "backward" /\ lg[n].res = "ok"}

\* What one backward(root, seed) stores in each Value when none holds a
\* gradient.
OneCall(G, root, seed) == Backward(ZeroGrad(G), root, seed, TRUE).vals
Times(k, g) == IF g = None THEN None ELSE [i \in 1..Len(g) |-> k * g[i]]

\* C5: a successful backward adds what one call stores to the gradient already
\* stored; after k successful calls with the same root and seed since the
\* gradients were last absent every stored gradient is k times what one call
\* stores; and only zero_grad makes a stored gradient absent again.
C5_GradientsAccumulate ==
    [][/\ IsCall("backward") /\ Last'.res = "ok" =>
            LET one == OneCall(Now, Last'.x, Last'.seed)
                P == PassesSinceZero(log')
            IN  /\ \A l \in 1..Len(vals) :
                      vals'[l].grad = RefSum(vals[l].grad, one[l].grad)
                /\ (\A m \in P : log'[m].x = Last'.x /\ log'[m].seed = Last'.seed)
                   => \A l \in 1..Len(vals) :
                         vals'[l].grad = Times(Cardinality(P), one[l].grad)
       /\ IsCall("zero_grad") => \A l \in 1..Len(vals') : vals'[l].grad = None
       /\ ~IsCall("zero_grad") =>
            \A l \in 1..Len(vals) : vals[l].grad # None => vals'[l].grad # None]_vars

\* C5 witness: two successful backward calls with the same root and seed, the
\* first with retention, left a gradient twice that of one call.
C5_Witness ==
    /\ Len(log) = 5
    /\ log[4].call = "backward" /\ log[4].res = "ok" /\ log[4].flag
    /\ log[5] = [log[4] EXCEPT !.flag = FALSE]
    /\ \E l \in 1..Len(vals) :
          /\ OneCall(Now, Last.x, Last.seed)[l].grad # None
          /\ \E i \in 1..2 : OneCall(Now, Last.x, Last.seed)[l].grad[i] # 0
          /\ vals[l].grad = Times(2, OneCall(Now, Last.x, Last.seed)[l].grad)

\* The parameters named_parameters() lists with requires_grad True.
Trainable == {model[n].name : n \in {m \in 1..Len(model) : vals[model[m].param].requires_grad}}

\* A freeze of every parameter was followed at once by the replacement of fc.
FrozenThenReplaced ==
    /\ Len(log) >= 2
    /\ Last.call = "replace_fc" /\ log[Len(log) - 1].call = "freeze_all"

\* C7: after "freeze every parameter, then replace fc by a new layer" exactly
\* fc.weight and fc.bias have requires_grad True, and these are the parameters
\* of the new layer.
C7_OnlyNewLayerTrainable ==
    FrozenThenReplaced =>
        /\ Trainable = {"fc.weight", "fc.bias"}
        /\ model[ParamOf(model, "fc.weight")].param = Last.x
        /\ model[ParamOf(model, "fc.bias")].param = Last.y
        /\ Last.y = Len(vals) /\ Last.x = Len(vals) - 1
        /\ {model[n].name : n \in 1..Len(model)} =
              {Backbone[n] : n \in 1..Len(Backbone)} \cup {"fc.weight", "fc.bias"}

\* C7 witness: the model was frozen, fc was replaced, and the listing shows
\* False for the backbone and True for fc.
C7_Witness ==
    /\ FrozenThenReplaced
    /\ ~vals[model[ParamOf(model, "conv1.weight")].param].requires_grad
    /\ vals[model[ParamOf(model, "fc.weight")].param].requires_grad
    /\ vals[model[ParamOf(model, "fc.bias")].param].requires_grad
    /\ Cardinality(Trainable) = 2

\* The leaves a pass from Value v can reach: through every input that needed a
\* gradient when its record was built.
RECURSIVE TrackedLeaves(_, _)
TrackedLeaves(G, v) ==
    IF IsLeaf(G.vals[v]) THEN {v}
    ELSE LET r == G.recs[G.vals[v].grad_fn]
         IN  UNION {TrackedLeaves(G, r.inputs[j]) :
                      j \in {n \in 1..Len(r.inputs) : r.needs[n]}}

\* Value root has no tracked path to a leaf requiring gradients.
NoTrackedPath(G, root) ==
    IF IsLeaf(G.vals[root]) THEN ~G.vals[root].requires_grad
    ELSE TrackedLeaves(G, root) = {}

\* The tensors below root were all created with requires_grad False.
OnlyFromFalseLeaves(root) ==
    \A l \in LeavesUsed(vals, root) :
        \E n \in 1..Len(log) :
            log[n].call = "tensor" /\ log[n].out = l /\ ~log[n].flag

\* C11: a backward call with a seed of the root's shape fails with
\* NoGradientPathError exactly when the root has no tracked path to a leaf
\* requiring gradients; it does so for every root whose requires_grad is False
\* and for every root derived only from tensors created with requires_grad
\* False; the error is the outcome of that very call, which writes nothing.
C11_NoGradientPathError ==
    [][IsCall("backward") /\ WellShaped(Last'.x, Last'.seed) =>
        LET root == Last'.x
        IN  /\ NoTrackedPath(Now, root) <=> Last'.res = "NoGradientPathError"
            /\ ~vals[root].requires_grad => Last'.res = "NoGradientPathError"
            /\ Derived(vals[root]) /\ OnlyFromFalseLeaves(root)
                  => Last'.res = "NoGradientPathError"
            /\ Last'.res = "NoGradientPathError" =>
                  /\ vals' = vals /\ recs' = recs
                  /\ Len(log') = Len(log) + 1]_vars

\* C11 witness: a sum of two tensors created with requires_grad False was used
\* as the root of backward with a seed of its shape, and the call failed with
\* NoGradientPathError.
C11_Witness ==
    /\ Last.call = "backward" /\ Last.res = "NoGradientPathError"
    /\ Derived(vals[Last.x]) /\ OnlyFromFalseLeaves(Last.x)
    /\ Last.seed # None /\ Len(Last.seed) = Len(vals[Last.x].data)
    /\ \A i \in 1..Len(vals) : vals[i].grad = None

\* The Values of a step's post-state that the step built from at least one
\* input with requires_grad True.
Traced(vs, from) == {i \in (from + 1)..Len(vs) : AnyInputRequiresGrad(vs, i)}

\* C12: of the operators a forward statement applies, each one whose inputs all
\* have requires_grad False gives a Value with no producing record, each one
\* with an input that has requires_grad True gives a Value produced by one new
\* record of its own that refers to the operator's inputs, and the number of
\* Operation Records grows by the number of the latter only.
C12_RecordOnlyWhenTraced ==
    [][IsCall("stmt") /\ Last'.res = "ok" =>
        /\ \A i \in (Len(vals) + 1)..Len(vals') :
              /\ ~AnyInputRequiresGrad(vals', i) => IsLeaf(vals'[i])
              /\ AnyInputRequiresGrad(vals', i) =>
                    /\ vals'[i].grad_fn \in (Len(recs) + 1)..Len(recs')
                    /\ recs'[vals'[i].grad_fn].inputs = vals'[i].inputs
                    /\ \A j \in 1..Len(vals') :
                          j # i => vals'[j].grad_fn # vals'[i].grad_fn
        /\ Len(recs') = Len(recs) + Cardinality(Traced(vals', Len(vals)))
        /\ Traced(vals', Len(vals)) = {} => recs' = recs]_vars

\* C12 witness: x + x with x not requiring gradients left the records as they
\* were and gave a Value without producer; then x + z with z requiring
\* gradients allocated the one record there is.
C12_Witness ==
    /\ Len(log) = 4 /\ Len(vals) = 4
    /\ log[3].call = "stmt" /\ log[4].call = "stmt"
    /\ Derived(vals[3]) /\ IsLeaf(vals[3]) /\ ~AnyInputRequiresGrad(vals, 3)
    /\ AnyInputRequiresGrad(vals, 4) /\ vals[4].grad_fn = 1
    /\ Len(recs) = 1 /\ recs[1].inputs = vals[4].inputs

\* The Values a pass from root reaches, the root included.
RECURSIVE Reached(_, _)
Reached(G, v) ==
    IF IsLeaf(G.vals[v]) THEN {v}
    ELSE LET r == G.recs[G.vals[v].grad_fn]
         IN  {v} \cup UNION {Reached(G, r.inputs[j]) :
                               j \in {n \in 1..Len(r.inputs) : r.needs[n]}}

\* The Values reached from root whose record hands a gradient to Value v.
Consumers(G, root, v) ==
    {u \in Reached(G, root) :
        /\ ~IsLeaf(G.vals[u])
        /\ \E j \in 1..Len(G.recs[G.vals[u].grad_fn].inputs) :
              /\ G.recs[G.vals[u].grad_fn].inputs[j] = v
              /\ G.recs[G.vals[u].grad_fn].needs[j]}

Visited(q) == {q.order[n] : n \in 1..Len(q.order)}

\* C13: when a pass processes a Value, every Value reached from the root that
\* consumes it has been processed, the gradient it holds is the complete sum
\* over all paths from the root, it has not been processed before, and the
\* first Value processed is the root; when the pass ends every reached Value
\* with a producing record has been processed once and the result is that of
\* backward.
C13_ProcessedWhenComplete ==
    [][/\ pass # None /\ pass' # None /\ pass'.order # pass.order =>
            LET v == pass.next
                g == SeedOf(Now, pass.root, pass.seed)
            IN  /\ pass'.order = Append(pass.order, v)
                /\ v \in Reached(Now, pass.root)
                /\ Consumers(Now, pass.root, v) \subseteq Visited(pass)
                /\ pass.acc[v] = PathSum(Now, pass.root, v, g)
                /\ v \notin Visited(pass)
                /\ pass.order = <<>> => v = pass.root
       /\ pass # None /\ pass' = None =>
            /\ Visited(pass) =
                  {u \in Reached(Now, pass.root) : ~IsLeaf(vals[u])}
            /\ Cardinality(Visited(pass)) = Len(pass.order)
            /\ vals' = Backward(Now, pass.root, pass.seed, pass.retain).vals
            /\ recs' = Backward(Now, pass.root, pass.seed, pass.retain).recs]_vars

\* C13 witness: a pass is about to process a Value with two consumers, both
\* processed already, each of which has added its contribution.
C13_Witness ==
    /\ pass # None /\ pass.next # 0
    /\ Cardinality(Consumers(Now, pass.root, pass.next)) = 2
    /\ Consumers(Now, pass.root, pass.next) \subseteq Visited(pass)
    /\ pass.order[1] = pass.root
    /\ pass.acc[pass.next] # None

\* The calls that computed a loss with the criterion.
Criteria == {n \in 1..Len(log) : log[n].call = "criterion"}

FreshLoss(root) == root \in ResultsOf("criterion") /\ PriorPasses(root) = {}

\* C15: net.zero_grad() leaves the gradient of every parameter absent; a
\* backward on a loss whose graph has not been passed succeeds and leaves every
\* one of the 10 parameters with a gradient; and the update loop that follows
\* zero_grad and such a backward reads no absent gradient, subtracts
\* learning_rate times the gradient from the data of each parameter and changes
\* nothing else, the stored gradients included.
C15_TrainingStepReadsGradients ==
    [][/\ IsCall("zero_grad") => \A q \in Parameters : vals'[q].grad = None
       /\ IsCall("backward") /\ FreshLoss(Last'.x) =>
            /\ Last'.res = "ok"
            /\ Cardinality(Parameters) = 10
            /\ \A q \in Parameters :
                  /\ IsLeaf(vals[q]) /\ vals[q].requires_grad
                  /\ q \in TrackedLeaves(Now, Last'.x)
                  /\ vals'[q].grad # None
       /\ IsCall("update") => (Last'.res = "ok" <=>
                                 \A q \in Parameters : vals[q].grad # None)
       /\ /\ IsCall("update") /\ Len(log) >= 2
          /\ Last.call = "backward" /\ Last.res = "ok"
          /\ Last.x \in ResultsOf("criterion")
          /\ log[Len(log) - 1].call = "zero_grad"
          => /\ Last'.res = "ok"
             /\ recs' = recs
             /\ \A i \in 1..Len(vals) :
                   vals'[i] =
                      IF i \in Parameters
                      THEN [vals[i] EXCEPT !.data =
                               [e \in 1..Len(@) |-> @[e] - Last'.x * vals[i].grad[e]]]
                      ELSE vals[i]]_vars

\* C15 witness: zero_grad, loss.backward() and the update loop ran in this
\* order; every parameter holds a gradient, one of them not zero, so that the
\* update moved its data.
C15_Witness ==
    /\ Len(log) >= 3
    /\ Last.call = "update" /\ Last.res = "ok"
    /\ log[Len(log) - 1].call = "backward" /\ log[Len(log) - 1].res = "ok"
    /\ log[Len(log) - 1].x \in ResultsOf("criterion")
    /\ log[Len(log) - 2].call = "zero_grad"
    /\ \A q \in Parameters : vals[q].grad # None
    /\ \E q \in Parameters : vals[q].grad # <<0>>
====
